---- MODULE Spec2Model ----
(***************************************************************************)
(* rust_kanban: the IO event pipeline of src/main.rs and                  *)
(* src/io/handler.rs.                                                      *)
(*                                                                         *)
(* Three execution contexts share one App behind a tokio Mutex: the main   *)
(* task ("ui"), the IO worker task ("io") and the widget manager task      *)
(* ("widget").  Commands travel over a bounded mpsc channel to the worker. *)
(* Strings are modelled as sequences of one-character strings.             *)
(* The mouse conversion of src/inputs/mouse.rs is modelled on its own.     *)
(***************************************************************************)
EXTENDS Integers, Sequences, FiniteSets, TLC

VARIABLES
    queue,        \* commands in flight on the mpsc channel (FIFO)
    rxAlive,      \* the receiver sync_io_rx is still owned by the worker task
    holders,      \* contexts that hold the tokio Mutex around App
    ioPc,         \* position of the IO worker task
    cur,          \* the io_event the worker is handling
    boards,       \* App.boards
    lifecycle,    \* App lifecycle: Created / Initializing / Initialized
    is_loading,   \* App loading flag (Loading = TRUE, Loaded = FALSE)
    fs,           \* the filesystem: config directory, config file, save directory
    uiPc,         \* position of the main task
    cliReset,     \* args.reset.is_some()
    snap,         \* what the UI has read of the board sequence in this critical section
    widgetPc,     \* position of the widget manager task
    run,          \* number of the current process run
    enqueued,     \* every command sent on the channel in this run, in send order
    handled,      \* commands whose handler the worker has started in this run
    loadedCount,  \* calls of app.loaded() made by the worker in this run
    sentTotal,    \* commands sent so far over all runs
    edits,        \* board edits made so far over all runs
    lastSaved,    \* what the last successful SaveLocalData wrote, and in which run
    pending,      \* the command of a send that has not completed yet
    mainTx,       \* main still owns its Sender sync_io_tx
    arcs,         \* tasks that own a clone of the Arc around the App
    vIn,          \* version selection: the save-file identifiers under test
    vOut,         \* version selection: what prepare_boards selected from vIn
    mIn,          \* mouse input: the raw crossterm event under test
    mOut          \* mouse input: what Mouse::from made of mIn

pipelineVars == << queue, rxAlive, holders, ioPc, cur, boards, lifecycle,
                   is_loading, fs, uiPc, cliReset, snap, widgetPc, run,
                   enqueued, handled, loadedCount, sentTotal, edits, lastSaved,
                   pending, mainTx, arcs >>

ownerVars == << mainTx, arcs >>

versionVars == << vIn, vOut >>

mouseVars == << mIn, mOut >>

vars == << pipelineVars, versionVars, mouseVars >>

-----------------------------------------------------------------------------
(* Bounds of the model *)

MaxSends == 2
MaxEdits == 1
MaxRuns == 2
MaxLen == 3
MaxCoord == 1

(* Program constants *)

ChannelCapacity == 100

\* u32::MAX = 4294967295, kept as quotient and remainder by the radix
U32MaxDiv10 == 429496729
U32MaxMod10 == 5

-----------------------------------------------------------------------------
(* Strings and the version arithmetic of prepare_boards *)

Digits == <<"0", "1", "2", "3", "4", "5", "6", "7", "8", "9">>

DigitChars == {Digits[i] : i \in 1..10}

DigitValue(c) == (CHOOSE i \in 1..10 : Digits[i] = c) - 1

\* the printable ASCII characters in byte order: from the space (byte 32)
\* to the underscore (byte 95), and from a (byte 97) to the tilde (byte
\* 126); the grave accent (byte 96) cannot be written in a string here
AsciiToUnderscore ==
    << " ", "!", "\"", "#", "$", "%", "&", "'", "(", ")", "*", "+",
       ",", "-", ".", "/", "0", "1", "2", "3", "4", "5", "6", "7",
       "8", "9", ":", ";", "<", "=", ">", "?", "@", "A", "B", "C",
       "D", "E", "F", "G", "H", "I", "J", "K", "L", "M", "N", "O",
       "P", "Q", "R", "S", "T", "U", "V", "W", "X", "Y", "Z", "[",
       "\\", "]", "^", "_" >>

AsciiFromLowerA ==
    << "a", "b", "c", "d", "e", "f", "g", "h", "i", "j", "k", "l",
       "m", "n", "o", "p", "q", "r", "s", "t", "u", "v", "w", "x",
       "y", "z", "{", "|", "}", "~" >>

\* position of c in the sequence t, 0 when it is not there
IndexIn(t, c) ==
    IF \E i \in 1..Len(t) : t[i] = c
    THEN CHOOSE i \in 1..Len(t) : t[i] = c
    ELSE 0

\* byte value of a character (ASCII), the order String's Ord compares by
CharCode(c) ==
    IF IndexIn(AsciiToUnderscore, c) > 0
    THEN 31 + IndexIn(AsciiToUnderscore, c)
    ELSE 96 + (CHOOSE i \in 1..Len(AsciiFromLowerA) : AsciiFromLowerA[i] = c)

\* a < b for Rust Strings: bytewise lexicographic, a proper prefix is smaller
RECURSIVE StrLess(_, _)
StrLess(a, b) ==
    IF a = <<>> THEN b # <<>>
    ELSE IF b = <<>> THEN FALSE
    ELSE IF Head(a) = Head(b) THEN StrLess(Tail(a), Tail(b))
    ELSE CharCode(Head(a)) < CharCode(Head(b))

\* local_save_files.iter().max().unwrap_or(&fall_back_version)
FallBackVersion == <<"1">>

LatestVersion(versions) ==
    IF versions = {} THEN FallBackVersion
    ELSE CHOOSE s \in versions : \A t \in versions : ~StrLess(s, t)

\* latest_version.split("v").collect::<Vec<&str>>()
RECURSIVE SplitV(_, _, _)
SplitV(s, done, part) ==
    IF s = <<>> THEN Append(done, part)
    ELSE IF Head(s) = "v" THEN SplitV(Tail(s), Append(done, part), <<>>)
    ELSE SplitV(Tail(s), done, Append(part, Head(s)))

\* a slip that takes the first segment of the split instead of the last
PopFirst(segments) ==
    IF segments = <<>> THEN <<"1">> ELSE segments[1]

\* version_number.pop().unwrap_or("1")
PopLast(segments) ==
    IF segments = <<>> THEN <<"1">> ELSE segments[Len(segments)]

ParseErr == -1

\* acc.checked_mul(10)?.checked_add(d): PosOverflow above u32::MAX
CheckedPush(acc, d) ==
    IF acc > U32MaxDiv10 \/ (acc = U32MaxDiv10 /\ d > U32MaxMod10) THEN ParseErr
    ELSE acc * 10 + d

\* the digit loop of u32::from_str: InvalidDigit and PosOverflow are errors
RECURSIVE ParseDigits(_, _)
ParseDigits(t, acc) ==
    IF t = <<>> THEN acc
    ELSE IF Head(t) \notin DigitChars THEN ParseErr
    ELSE IF CheckedPush(acc, DigitValue(Head(t))) = ParseErr THEN ParseErr
    ELSE ParseDigits(Tail(t), CheckedPush(acc, DigitValue(Head(t))))

\* str::parse::<u32>(): empty is an error, a lone sign is an error, one
\* leading "+" is accepted, "-" is not a digit of an unsigned type
ParseU32(t) ==
    IF t = <<>> THEN ParseErr
    ELSE IF Len(t) = 1 /\ Head(t) \in {"+", "-"} THEN ParseErr
    ELSE IF Head(t) = "+" THEN ParseDigits(Tail(t), 0)
    ELSE ParseDigits(t, 0)

\* last_version_number.parse::<u32>().unwrap_or(1)
UnwrapOr1(r) == IF r = ParseErr THEN 1 ELSE r

VersionNumber(latest) == UnwrapOr1(ParseU32(PopLast(SplitV(latest, <<>>, <<>>))))

\* prepare_boards 136-144: the identifier selected among the listed save
\* files and the numeric version handed to get_local_kanban_state
SelectVersion(versions) ==
    [latest |-> LatestVersion(versions),
     number |-> VersionNumber(LatestVersion(versions))]

-----------------------------------------------------------------------------
(* Boards and the persistence store (data_handler) *)

\* a Board is a name and an ordered sequence of cards; names and cards are
\* numbered, 0 is the empty name
Board(name, cards) == [name |-> name, cards |-> cards]

\* Board::default()
DefaultBoard == Board(0, <<>>)

BoardA == Board(1, <<1, 2>>)

BoardB == Board(2, <<2>>)

\* board sequences the user can produce by editing
EditChoices == {<<BoardA, BoardB>>, <<BoardB>>}

\* serialization of a board sequence: the number of boards, then for each
\* board its name, the number of its cards, and its cards
RECURSIVE EncodeBoards(_)
EncodeBoards(bs) ==
    IF bs = <<>> THEN <<>>
    ELSE <<Head(bs).name, Len(Head(bs).cards)>> \o Head(bs).cards
         \o EncodeBoards(Tail(bs))

Encode(bs) == <<Len(bs)>> \o EncodeBoards(bs)

LoadErr == "LoadError"

RECURSIVE DecodeBoards(_, _, _)
DecodeBoards(tokens, n, acc) ==
    IF n = 0 THEN (IF tokens = <<>> THEN acc ELSE LoadErr)
    ELSE IF Len(tokens) < 2 THEN LoadErr
    ELSE IF Len(tokens) < 2 + tokens[2] THEN LoadErr
    ELSE DecodeBoards(SubSeq(tokens, 3 + tokens[2], Len(tokens)), n - 1,
                      Append(acc, Board(tokens[1], SubSeq(tokens, 3, 2 + tokens[2]))))

Decode(tokens) ==
    IF tokens = <<>> THEN LoadErr
    ELSE DecodeBoards(Tail(tokens), Head(tokens), <<>>)

\* a snapshot file that fails schema validation: it announces two boards
\* and holds one
CorruptFile == <<2, 1, 0>>

RECURSIVE DecimalDigits(_)
DecimalDigits(n) ==
    IF n < 10 THEN <<Digits[n + 1]>>
    ELSE Append(DecimalDigits(n \div 10), Digits[(n % 10) + 1])

\* the identifier of the save file of numeric version n: v<N>
FormatVersion(n) == <<"v">> \o DecimalDigits(n)

\* get_available_local_savefiles(): an unreadable directory yields nothing
GetAvailableLocalSavefiles(f) ==
    IF f.saveDir THEN {FormatVersion(n) : n \in DOMAIN f.files} ELSE {}

\* get_local_kanban_state(version): missing, unreadable or invalid is an error
GetLocalKanbanState(f, version) ==
    IF ~f.saveDir \/ version \notin DOMAIN f.files THEN LoadErr
    ELSE Decode(f.files[version])

MaxOf(S) == CHOOSE m \in S : \A k \in S : k <= m

\* the version a new snapshot gets: one more than the largest one present
NextVersion(f) == IF DOMAIN f.files = {} THEN 1 ELSE MaxOf(DOMAIN f.files) + 1

\* save_kanban_state_locally(boards) succeeds
CanSave(f) == f.saveDir /\ f.writable

\* the filesystem after save_kanban_state_locally(boards): a failed write
\* leaves it as it was
SaveKanbanStateLocally(f, bs) ==
    IF CanSave(f)
    THEN [f EXCEPT !.files = (NextVersion(f) :> Encode(bs)) @@ f.files]
    ELSE f

\* the filesystem after data_handler::reset_config()
ResetConfigFile(f) ==
    IF f.configDir /\ f.writable THEN [f EXCEPT !.configFile = "default"] ELSE f

\* prepare_boards 136-145: what get_local_kanban_state returns for the
\* version selected among the listed save files
LoadLatest(f) ==
    GetLocalKanbanState(f, SelectVersion(GetAvailableLocalSavefiles(f)).number)

\* a slip that installs no board at all when the load fails
PrepareBoardsNoFallback(f) ==
    IF LoadLatest(f) = LoadErr THEN <<>> ELSE LoadLatest(f)

\* prepare_boards(): list, select the latest, parse its number, load, and
\* fall back to one default board when the load fails
PrepareBoards(f) ==
    LET local_data == LoadLatest(f)
    IN  IF local_data = LoadErr THEN <<DefaultBoard>> ELSE local_data

FileSystem(cd, cf, sd, fl, w) ==
    [configDir |-> cd, configFile |-> cf, saveDir |-> sd, files |-> fl, writable |-> w]

NoFiles == [n \in {} |-> <<>>]

\* the filesystems a run can start from
InitialFileSystems ==
    { FileSystem(FALSE, "absent", FALSE, NoFiles, TRUE),
      FileSystem(FALSE, "absent", FALSE, NoFiles, FALSE),
      FileSystem(TRUE, "custom", TRUE, (1 :> Encode(<<BoardB>>)), TRUE),
      FileSystem(TRUE, "custom", TRUE,
                 (2 :> Encode(<<BoardB>>)) @@ (10 :> Encode(<<BoardA>>)), TRUE),
      FileSystem(TRUE, "default", TRUE, (1 :> CorruptFile), FALSE) }

-----------------------------------------------------------------------------
(* The command channel, the lock and the App *)

Commands == {"Initialize", "GetLocalData", "GetCloudData", "Reset", "SaveLocalData"}

\* a command in flight, tagged with its sender and its number among the
\* sender's commands
Message(cmd, from, seq) == [cmd |-> cmd, from |-> from, seq |-> seq]

NoCmd == Message("none", "none", 0)

NoSnap == <<>>

NoSave == [boards |-> <<>>, run |-> 0]

SentBy(p, log) == Len(SelectSeq(log, LAMBDA m : m.from = p))

\* tokio::sync::mpsc::Sender::send completes only when there is room
CanSend(q) == Len(q) < ChannelCapacity

\* a slip that hands out the newest command first
RecvPosNewest(q) == Len(q)

\* tokio::sync::mpsc::Receiver::recv takes the oldest command
RecvPos(q) == 1

Received(q) == q[RecvPos(q)]

Remaining(q) == SubSeq(q, 1, RecvPos(q) - 1) \o SubSeq(q, RecvPos(q) + 1, Len(q))

\* a slip that reaches the App without waiting for the lock
CanLockUnguarded(ctx) == TRUE

\* tokio::sync::Mutex::lock().await completes only when nobody holds the lock
CanLock(ctx) == holders = {}

\* a slip that sends Reset into the handler of GetLocalData
HandlerEntryResetReloads(cmd) ==
    CASE cmd = "Initialize" -> "init_lock"
      [] cmd = "GetLocalData" -> "get_local_lock"
      [] cmd = "GetCloudData" -> "get_cloud_lock"
      [] cmd = "Reset" -> "get_local_lock"
      [] cmd = "SaveLocalData" -> "save_lock"

\* the match of handle_io_event: where each command's handler begins
HandlerEntry(cmd) ==
    CASE cmd = "Initialize" -> "init_lock"
      [] cmd = "GetLocalData" -> "get_local_lock"
      [] cmd = "GetCloudData" -> "get_cloud_lock"
      [] cmd = "Reset" -> "reset"
      [] cmd = "SaveLocalData" -> "save_lock"

\* positions at which the worker is inside a filesystem operation
IoSteps == {"init_config", "init_save", "init_boards", "reset", "save_write"}

\* std::fs::create_dir_all(..).unwrap() and std::fs::write(..).unwrap()
\* panic when the filesystem refuses the write
ConfigDirPanics(f) == (~f.configDir \/ f.configFile = "absent") /\ ~f.writable

SaveDirPanics(f) == ~f.saveDir /\ ~f.writable

\* a slip that writes the default config whether or not one exists
PrepareConfigDirOverwrites(f) ==
    [f EXCEPT !.configDir = TRUE, !.configFile = "default"]

\* the filesystem after prepare_config_dir() returned
PrepareConfigDir(f) ==
    [f EXCEPT !.configDir = TRUE,
              !.configFile = IF f.configFile = "absent" THEN "default" ELSE @]

\* the filesystem after prepare_save_dir() returned
PrepareSaveDir(f) == [f EXCEPT !.saveDir = TRUE]

\* the owners of an Arc around the App: the handler of the worker task
\* (main.rs 61), the widget manager (main.rs 53, 69) and the UI (main.rs 54)
Tasks == {"io", "widget", "ui"}

\* a slip that builds the App without a sender of its own
AppSenderNone(a) == {}

\* App::new(sync_io_tx.clone()): the App owns a sender for as long as one
\* Arc around it is alive
AppSender(a) == IF a # {} THEN {"app"} ELSE {}

\* the live senders of the channel
LiveSenders == (IF mainTx THEN {"main"} ELSE {}) \cup AppSender(arcs)

\* recv() returns None once every sender is dropped and nothing is queued
ChannelClosed == LiveSenders = {} /\ queue = <<>>

ioLocals == << uiPc, cliReset, snap, widgetPc, run, enqueued, sentTotal, edits >>

\* a panic unwinds do_initialize: the MutexGuard, a local of the handler,
\* is dropped; the handler and the receiver, owned by the future of the
\* task, are still there
IoPanic ==
    /\ ioPc' = "unwinding"
    /\ holders' = holders \ {"io"}
    /\ UNCHANGED << queue, rxAlive, cur, boards, lifecycle, is_loading, fs,
                    handled, loadedCount, lastSaved, ioLocals, ownerVars,
                    pending, versionVars, mouseVars >>

\* the runtime drops the future of the panicked task, and with it the
\* handler (its Arc) and the receiver: the channel closes and what is
\* queued is dropped unhandled
IoTaskEnds ==
    /\ ioPc = "unwinding"
    /\ ioPc' = "panicked"
    /\ rxAlive' = FALSE
    /\ queue' = <<>>
    /\ arcs' = arcs \ {"io"}
    /\ UNCHANGED << holders, cur, boards, lifecycle, is_loading, fs, handled,
                    loadedCount, lastSaved, ioLocals, mainTx, pending,
                    versionVars, mouseVars >>

-----------------------------------------------------------------------------
(* The IO worker task: main.rs 60-65 and IoAsyncHandler *)

\* a slip that receives the next command while a handler is still running
WorkerWaitingNotAwaited == ioPc \notin {"unwinding", "panicked"}

\* the loop of the worker awaits each handler before it receives again
WorkerWaiting == ioPc = "recv"

\* while let Some(io_event) = sync_io_rx.recv().await: a command starts its
\* handler, None ends the loop
IoRecv ==
    /\ WorkerWaiting
    /\ rxAlive
    /\ IF queue # <<>>
       THEN /\ cur' = Received(queue)
            /\ queue' = Remaining(queue)
            /\ handled' = Append(handled, Received(queue))
            /\ ioPc' = HandlerEntry(Received(queue).cmd)
       ELSE /\ ChannelClosed
            /\ ioPc' = "closed"
            /\ UNCHANGED << cur, queue, handled >>
    /\ UNCHANGED << rxAlive, holders, boards, lifecycle, is_loading, fs,
                    loadedCount, lastSaved, ioLocals, ownerVars, pending, versionVars, mouseVars >>

\* a step of the worker that only takes the lock
IoTakeLock(from, to) ==
    /\ ioPc = from
    /\ CanLock("io")
    /\ holders' = holders \cup {"io"}
    /\ ioPc' = to
    /\ UNCHANGED << queue, rxAlive, cur, boards, lifecycle, is_loading, fs,
                    handled, loadedCount, lastSaved, ioLocals, ownerVars, pending, versionVars, mouseVars >>

\* a slip that marks the App initialized as soon as the handler has the lock
IoInitLockMarksInitialized ==
    /\ ioPc = "init_lock"
    /\ CanLock("io")
    /\ holders' = holders \cup {"io"}
    /\ lifecycle' = "Initialized"
    /\ ioPc' = "init_config"
    /\ UNCHANGED << queue, rxAlive, cur, boards, is_loading, fs, handled,
                    loadedCount, lastSaved, ioLocals, ownerVars, pending, versionVars,
                    mouseVars >>

\* do_initialize: let mut app = self.app.lock().await
IoInitLock == IoTakeLock("init_lock", "init_config")

IoPrepareConfigDir ==
    /\ ioPc = "init_config"
    /\ IF ConfigDirPanics(fs) THEN IoPanic
       ELSE /\ fs' = PrepareConfigDir(fs)
            /\ ioPc' = "init_save"
            /\ UNCHANGED << queue, rxAlive, holders, cur, boards, lifecycle,
                            is_loading, handled, loadedCount, lastSaved,
                            ioLocals, ownerVars, pending, versionVars, mouseVars >>

IoPrepareSaveDir ==
    /\ ioPc = "init_save"
    /\ IF SaveDirPanics(fs) THEN IoPanic
       ELSE /\ fs' = PrepareSaveDir(fs)
            /\ ioPc' = "init_boards"
            /\ UNCHANGED << queue, rxAlive, holders, cur, boards, lifecycle,
                            is_loading, handled, loadedCount, lastSaved,
                            ioLocals, ownerVars, pending, versionVars, mouseVars >>

\* app.boards = prepare_boards(); app.initialized(); the guard drops on return
IoInstallBoards ==
    /\ ioPc = "init_boards"
    /\ boards' = PrepareBoards(fs)
    /\ lifecycle' = "Initialized"
    /\ holders' = holders \ {"io"}
    /\ ioPc' = "loaded_lock"
    /\ UNCHANGED << queue, rxAlive, cur, is_loading, fs, handled, loadedCount,
                    lastSaved, ioLocals, ownerVars, pending, versionVars, mouseVars >>

\* a slip that leaves the boards as they are
IoSetEmptyKeeps(from) ==
    /\ ioPc = from
    /\ holders' = holders \ {"io"}
    /\ ioPc' = "loaded_lock"
    /\ UNCHANGED << queue, rxAlive, cur, boards, lifecycle, is_loading, fs,
                    handled, loadedCount, lastSaved, ioLocals, ownerVars,
                    pending, versionVars, mouseVars >>

\* app.set_boards(vec![]); the guard drops on return
IoSetEmpty(from) ==
    /\ ioPc = from
    /\ boards' = <<>>
    /\ holders' = holders \ {"io"}
    /\ ioPc' = "loaded_lock"
    /\ UNCHANGED << queue, rxAlive, cur, lifecycle, is_loading, fs, handled,
                    loadedCount, lastSaved, ioLocals, ownerVars, pending, versionVars, mouseVars >>

IoGetLocalLock == IoTakeLock("get_local_lock", "get_local_set")

IoGetLocalSave == IoSetEmpty("get_local_set")

IoGetCloudLock == IoTakeLock("get_cloud_lock", "get_cloud_set")

IoGetCloudSave == IoSetEmpty("get_cloud_set")

IoResetConfig ==
    /\ ioPc = "reset"
    /\ fs' = ResetConfigFile(fs)
    /\ ioPc' = "loaded_lock"
    /\ UNCHANGED << queue, rxAlive, holders, cur, boards, lifecycle, is_loading,
                    handled, loadedCount, lastSaved, ioLocals, ownerVars, pending, versionVars, mouseVars >>

IoSaveLock == IoTakeLock("save_lock", "save_write")

\* a slip that moves the boards out of the App instead of copying them
IoSaveLocalDataTakes ==
    /\ ioPc = "save_write"
    /\ fs' = SaveKanbanStateLocally(fs, boards)
    /\ lastSaved' = IF CanSave(fs) THEN [boards |-> boards, run |-> run] ELSE lastSaved
    /\ boards' = <<>>
    /\ holders' = holders \ {"io"}
    /\ ioPc' = "loaded_lock"
    /\ UNCHANGED << queue, rxAlive, cur, lifecycle, is_loading, handled,
                    loadedCount, ioLocals, ownerVars, pending, versionVars, mouseVars >>

\* save_kanban_state_locally(board_data.to_vec()); the guard drops on return
IoSaveLocalData ==
    /\ ioPc = "save_write"
    /\ fs' = SaveKanbanStateLocally(fs, boards)
    /\ lastSaved' = IF CanSave(fs) THEN [boards |-> boards, run |-> run] ELSE lastSaved
    /\ holders' = holders \ {"io"}
    /\ ioPc' = "loaded_lock"
    /\ UNCHANGED << queue, rxAlive, cur, boards, lifecycle, is_loading, handled,
                    loadedCount, ioLocals, ownerVars, pending, versionVars, mouseVars >>

IoLoadedLock == IoTakeLock("loaded_lock", "loaded_set")

\* app.loaded(); the guard drops on return and the loop receives again
IoLoaded ==
    /\ ioPc = "loaded_set"
    /\ is_loading' = FALSE
    /\ loadedCount' = loadedCount + 1
    /\ holders' = holders \ {"io"}
    /\ cur' = NoCmd
    /\ ioPc' = "recv"
    /\ UNCHANGED << queue, rxAlive, boards, lifecycle, fs, handled, lastSaved,
                    ioLocals, ownerVars, pending, versionVars, mouseVars >>

-----------------------------------------------------------------------------
(* The main task: the CLI pre-flight sender (main.rs 79-81), then the UI *)

uiLocals == << ioPc, cur, fs, widgetPc, run, handled, loadedCount, lastSaved >>

\* the channel after a send by producer p
Enqueue(q, cmd, p) == Append(q, Message(cmd, p, SentBy(p, enqueued) + 1))

\* sync_io_tx.send(IoEvent::Reset).await.unwrap(), sent without the lock
MainCliReset ==
    /\ uiPc = "cli"
    /\ cliReset
    /\ rxAlive
    /\ CanSend(queue)
    /\ queue' = Enqueue(queue, "Reset", "cli")
    /\ enqueued' = Enqueue(enqueued, "Reset", "cli")
    /\ uiPc' = "idle"
    /\ UNCHANGED << rxAlive, holders, boards, lifecycle, is_loading, cliReset,
                    snap, sentTotal, edits, uiLocals, ownerVars, pending, versionVars, mouseVars >>

\* args.reset is None: start_ui at once
MainStartUi ==
    /\ uiPc = "cli"
    /\ ~cliReset
    /\ uiPc' = "idle"
    /\ UNCHANGED << queue, rxAlive, holders, boards, lifecycle, is_loading,
                    cliReset, snap, enqueued, sentTotal, edits, uiLocals,
                    ownerVars, pending, versionVars, mouseVars >>

UiLock ==
    /\ uiPc = "idle"
    /\ CanLock("ui")
    /\ holders' = holders \cup {"ui"}
    /\ uiPc' = "locked"
    /\ UNCHANGED << queue, rxAlive, boards, lifecycle, is_loading, cliReset,
                    snap, enqueued, sentTotal, edits, uiLocals, ownerVars, pending, versionVars, mouseVars >>

\* App dispatches a command through its own sender: the caller holds the
\* lock; the flag is set before the send and cleared when the send fails
UiDispatch(cmd) ==
    /\ uiPc = "locked"
    /\ sentTotal < MaxSends
    /\ sentTotal' = sentTotal + 1
    /\ IF rxAlive
       THEN /\ CanSend(queue)
            /\ queue' = Enqueue(queue, cmd, "ui")
            /\ enqueued' = Enqueue(enqueued, cmd, "ui")
            /\ is_loading' = TRUE
            /\ lifecycle' = IF cmd = "Initialize" THEN "Initializing" ELSE lifecycle
       ELSE /\ is_loading' = FALSE
            /\ UNCHANGED << queue, enqueued, lifecycle >>
    /\ UNCHANGED << rxAlive, holders, boards, uiPc, cliReset, snap, edits,
                    uiLocals, ownerVars, pending, versionVars, mouseVars >>

\* the user edits the boards: a mutation of App.boards under the lock
UiEdit(bs) ==
    /\ uiPc = "locked"
    /\ edits < MaxEdits
    /\ edits' = edits + 1
    /\ boards' = bs
    /\ UNCHANGED << queue, rxAlive, holders, lifecycle, is_loading, uiPc,
                    cliReset, snap, enqueued, sentTotal, uiLocals, ownerVars, pending, versionVars, mouseVars >>

\* rendering reads the board sequence in two looks inside one critical section
UiReadFirst ==
    /\ uiPc = "locked"
    /\ snap = NoSnap
    /\ snap' = <<boards>>
    /\ uiPc' = "reading"
    /\ UNCHANGED << queue, rxAlive, holders, boards, lifecycle, is_loading,
                    cliReset, enqueued, sentTotal, edits, uiLocals, ownerVars, pending, versionVars, mouseVars >>

UiReadSecond ==
    /\ uiPc = "reading"
    /\ snap' = Append(snap, boards)
    /\ uiPc' = "locked"
    /\ UNCHANGED << queue, rxAlive, holders, boards, lifecycle, is_loading,
                    cliReset, enqueued, sentTotal, edits, uiLocals, ownerVars, pending, versionVars, mouseVars >>

UiUnlock ==
    /\ uiPc = "locked"
    /\ holders' = holders \ {"ui"}
    /\ snap' = NoSnap
    /\ uiPc' = "idle"
    /\ UNCHANGED << queue, rxAlive, boards, lifecycle, is_loading, cliReset,
                    enqueued, sentTotal, edits, uiLocals, ownerVars, pending, versionVars, mouseVars >>

-----------------------------------------------------------------------------
(* The widget manager task: main.rs 67-73 *)

widgetLocals == << queue, rxAlive, ioPc, cur, boards, lifecycle, is_loading, fs,
                   uiPc, cliReset, snap, run, enqueued, handled, loadedCount,
                   sentTotal, edits, lastSaved >>

\* widget_manager.update() takes the lock to look at the App
WidgetLock ==
    /\ widgetPc = "idle"
    /\ CanLock("widget")
    /\ holders' = holders \cup {"widget"}
    /\ widgetPc' = "locked"
    /\ UNCHANGED << widgetLocals, ownerVars, pending, versionVars, mouseVars >>

WidgetUnlock ==
    /\ widgetPc = "locked"
    /\ holders' = holders \ {"widget"}
    /\ widgetPc' = "idle"
    /\ UNCHANGED << widgetLocals, ownerVars, pending, versionVars, mouseVars >>

-----------------------------------------------------------------------------
(* Process start and the specifications *)

NoOut == [latest |-> <<>>, number |-> 0]

NoEvent == [kind |-> "none", button |-> "none", modifiers |-> {}, column |-> 0, row |-> 0]

NoMouse == <<"none">>

Init ==
    /\ \E reset \in BOOLEAN :
          /\ queue = <<>>
          /\ rxAlive = TRUE
          /\ holders = {}
          /\ ioPc = "recv"
          /\ cur = NoCmd
          /\ boards = <<>>
          /\ lifecycle = "Created"
          /\ is_loading = FALSE
          /\ uiPc = "cli"
          /\ cliReset = reset
          /\ snap = NoSnap
          /\ widgetPc = "idle"
          /\ enqueued = <<>>
          /\ handled = <<>>
          /\ loadedCount = 0
    /\ fs \in InitialFileSystems
    /\ run = 1
    /\ sentTotal = 0
    /\ edits = 0
    /\ lastSaved = NoSave
    /\ pending = NoCmd
    /\ mainTx = TRUE
    /\ arcs = Tasks
    /\ vIn = {}
    /\ vOut = NoOut
    /\ mIn = NoEvent
    /\ mOut = NoMouse

\* the process ends abruptly and is started again: memory is lost, the
\* filesystem stays
Restart ==
    /\ run < MaxRuns
    /\ run' = run + 1
    /\ \E reset \in BOOLEAN :
          /\ queue' = <<>>
          /\ rxAlive' = TRUE
          /\ holders' = {}
          /\ ioPc' = "recv"
          /\ cur' = NoCmd
          /\ boards' = <<>>
          /\ lifecycle' = "Created"
          /\ is_loading' = FALSE
          /\ uiPc' = "cli"
          /\ cliReset' = reset
          /\ snap' = NoSnap
          /\ widgetPc' = "idle"
          /\ enqueued' = <<>>
          /\ handled' = <<>>
          /\ loadedCount' = 0
          /\ pending' = NoCmd
          /\ mainTx' = TRUE
          /\ arcs' = Tasks
    /\ UNCHANGED << fs, sentTotal, edits, lastSaved, versionVars, mouseVars >>

Next ==
    \/ IoRecv
    \/ IoInitLock
    \/ IoPrepareConfigDir
    \/ IoPrepareSaveDir
    \/ IoInstallBoards
    \/ IoGetLocalLock
    \/ IoGetLocalSave
    \/ IoGetCloudLock
    \/ IoGetCloudSave
    \/ IoResetConfig
    \/ IoSaveLock
    \/ IoSaveLocalData
    \/ IoLoadedLock
    \/ IoLoaded
    \/ IoTaskEnds
    \/ MainCliReset
    \/ MainStartUi
    \/ UiLock
    \/ \E cmd \in Commands : UiDispatch(cmd)
    \/ \E bs \in EditChoices : UiEdit(bs)
    \/ UiReadFirst
    \/ UiReadSecond
    \/ UiUnlock
    \/ WidgetLock
    \/ WidgetUnlock
    \/ Restart

Spec == Init /\ [][Next]_vars

-----------------------------------------------------------------------------
(* The end of main: start_ui returns, main drops what it owns and the      *)
(* runtime drops the spawned tasks at the await they are suspended in      *)

\* start_ui returned: main ends, its sender sync_io_tx and the Arc
\* app_ui_instance are dropped
MainReturn ==
    /\ uiPc = "idle"
    /\ uiPc' = "returned"
    /\ mainTx' = FALSE
    /\ arcs' = arcs \ {"ui"}
    /\ UNCHANGED << queue, rxAlive, holders, boards, lifecycle, is_loading,
                    cliReset, snap, enqueued, sentTotal, edits, uiLocals,
                    pending, versionVars, mouseVars >>

\* positions of the worker after the handler of the current command returned
AfterHandler == {"loaded_lock", "loaded_set", "recv"}

\* the awaits of the worker task: recv() and every lock()
IoAwaits == {"recv", "init_lock", "get_local_lock", "get_cloud_lock",
             "save_lock", "loaded_lock"}

\* the runtime shuts down: the worker task is dropped where it is suspended,
\* between two commands or at a lock() inside a handler, and with it the
\* handler (its Arc) and the receiver
IoTaskDropped ==
    /\ uiPc = "returned"
    /\ ioPc \in IoAwaits
    /\ ioPc' = IF ioPc \in AfterHandler THEN "dropped" ELSE "dropped_in_handler"
    /\ rxAlive' = FALSE
    /\ queue' = <<>>
    /\ arcs' = arcs \ {"io"}
    /\ UNCHANGED << holders, cur, boards, lifecycle, is_loading, fs, handled,
                    loadedCount, lastSaved, ioLocals, mainTx, pending, versionVars,
                    mouseVars >>

\* the runtime shuts down: the widget manager task is dropped at its lock()
WidgetTaskDropped ==
    /\ uiPc = "returned"
    /\ widgetPc = "idle"
    /\ widgetPc' = "dropped"
    /\ arcs' = arcs \ {"widget"}
    /\ UNCHANGED << holders, widgetLocals, mainTx, pending, versionVars, mouseVars >>

\* one run of the process from its start to the end of main
LifeNext ==
    \/ IoRecv
    \/ IoInitLock
    \/ IoPrepareConfigDir
    \/ IoPrepareSaveDir
    \/ IoInstallBoards
    \/ IoGetLocalLock
    \/ IoGetLocalSave
    \/ IoGetCloudLock
    \/ IoGetCloudSave
    \/ IoResetConfig
    \/ IoSaveLock
    \/ IoSaveLocalData
    \/ IoLoadedLock
    \/ IoLoaded
    \/ IoTaskEnds
    \/ MainCliReset
    \/ MainStartUi
    \/ UiLock
    \/ \E cmd \in Commands : UiDispatch(cmd)
    \/ UiUnlock
    \/ WidgetLock
    \/ WidgetUnlock
    \/ MainReturn
    \/ IoTaskDropped
    \/ WidgetTaskDropped

LifeSpec == Init /\ [][LifeNext]_vars

-----------------------------------------------------------------------------
(* The channel at its capacity: the send of a dispatch in its two halves,  *)
(* the call and its completion when the channel has room                   *)

\* sends enough to fill the channel behind a command the worker has taken
FullSends == ChannelCapacity + 2

FullCommands == {"GetLocalData"}

\* the locks the worker waits for
LockWaits == IoAwaits \ {"recv"}

\* App calls io_tx.send(cmd) and awaits it: the caller holds the lock and
\* the loading flag is set before the send
UiSendBegin(cmd) ==
    /\ uiPc = "locked"
    /\ sentTotal < FullSends
    /\ sentTotal' = sentTotal + 1
    /\ is_loading' = TRUE
    /\ pending' = Message(cmd, "ui", SentBy("ui", enqueued) + 1)
    /\ uiPc' = "sending"
    /\ UNCHANGED << queue, rxAlive, holders, boards, lifecycle, cliReset, snap,
                    enqueued, edits, uiLocals, ownerVars, versionVars, mouseVars >>

\* the send completes when the channel has room, or fails when the
\* receiver is gone
UiSendComplete ==
    /\ uiPc = "sending"
    /\ IF rxAlive
       THEN /\ CanSend(queue)
            /\ queue' = Append(queue, pending)
            /\ enqueued' = Append(enqueued, pending)
            /\ lifecycle' = IF pending.cmd = "Initialize" THEN "Initializing" ELSE lifecycle
            /\ UNCHANGED is_loading
       ELSE /\ is_loading' = FALSE
            /\ UNCHANGED << queue, enqueued, lifecycle >>
    /\ pending' = NoCmd
    /\ uiPc' = "locked"
    /\ UNCHANGED << rxAlive, holders, boards, cliReset, snap, sentTotal, edits,
                    uiLocals, ownerVars, versionVars, mouseVars >>

FullInit ==
    /\ queue = <<>>
    /\ rxAlive = TRUE
    /\ holders = {}
    /\ ioPc = "recv"
    /\ cur = NoCmd
    /\ boards = <<>>
    /\ lifecycle = "Created"
    /\ is_loading = FALSE
    /\ uiPc = "cli"
    /\ cliReset = FALSE
    /\ snap = NoSnap
    /\ widgetPc = "idle"
    /\ enqueued = <<>>
    /\ handled = <<>>
    /\ loadedCount = 0
    /\ fs = FileSystem(FALSE, "absent", FALSE, NoFiles, TRUE)
    /\ run = 1
    /\ sentTotal = 0
    /\ edits = 0
    /\ lastSaved = NoSave
    /\ pending = NoCmd
    /\ mainTx = TRUE
    /\ arcs = Tasks
    /\ vIn = {}
    /\ vOut = NoOut
    /\ mIn = NoEvent
    /\ mOut = NoMouse

FullNext ==
    \/ IoRecv
    \/ IoGetLocalLock
    \/ IoGetLocalSave
    \/ IoLoadedLock
    \/ IoLoaded
    \/ MainStartUi
    \/ UiLock
    \/ \E cmd \in FullCommands : UiSendBegin(cmd)
    \/ UiSendComplete
    \/ UiUnlock

FullSpec == FullInit /\ [][FullNext]_vars

-----------------------------------------------------------------------------
(* Several producers: the widget manager task shares the App (main.rs 53,  *)
(* 69) and with it the App's sender, so it can dispatch under the lock as  *)
(* the UI does, while main sends its Reset and while the UI dispatches     *)

ProducerCommands == {"GetLocalData", "GetCloudData"}

\* a dispatch through the App by the widget manager task, which holds the
\* lock: the same steps as a dispatch by the UI
WidgetDispatch(cmd) ==
    /\ widgetPc = "locked"
    /\ SentBy("widget", enqueued) < MaxSends
    /\ IF rxAlive
       THEN /\ CanSend(queue)
            /\ queue' = Enqueue(queue, cmd, "widget")
            /\ enqueued' = Enqueue(enqueued, cmd, "widget")
            /\ is_loading' = TRUE
            /\ lifecycle' = IF cmd = "Initialize" THEN "Initializing" ELSE lifecycle
       ELSE /\ is_loading' = FALSE
            /\ UNCHANGED << queue, enqueued, lifecycle >>
    /\ UNCHANGED << rxAlive, holders, ioPc, cur, boards, fs, uiPc, cliReset,
                    snap, widgetPc, run, handled, loadedCount, sentTotal, edits,
                    lastSaved, ownerVars, pending, versionVars, mouseVars >>

ProducerInit ==
    /\ queue = <<>>
    /\ rxAlive = TRUE
    /\ holders = {}
    /\ ioPc = "recv"
    /\ cur = NoCmd
    /\ boards = <<>>
    /\ lifecycle = "Created"
    /\ is_loading = FALSE
    /\ uiPc = "cli"
    /\ cliReset \in BOOLEAN
    /\ snap = NoSnap
    /\ widgetPc = "idle"
    /\ enqueued = <<>>
    /\ handled = <<>>
    /\ loadedCount = 0
    /\ fs = FileSystem(TRUE, "custom", TRUE, NoFiles, TRUE)
    /\ run = 1
    /\ sentTotal = 0
    /\ edits = 0
    /\ lastSaved = NoSave
    /\ pending = NoCmd
    /\ mainTx = TRUE
    /\ arcs = Tasks
    /\ vIn = {}
    /\ vOut = NoOut
    /\ mIn = NoEvent
    /\ mOut = NoMouse

ProducerNext ==
    \/ IoRecv
    \/ IoGetLocalLock
    \/ IoGetLocalSave
    \/ IoGetCloudLock
    \/ IoGetCloudSave
    \/ IoResetConfig
    \/ IoLoadedLock
    \/ IoLoaded
    \/ MainCliReset
    \/ MainStartUi
    \/ UiLock
    \/ \E cmd \in ProducerCommands : UiDispatch(cmd)
    \/ UiUnlock
    \/ WidgetLock
    \/ \E cmd \in ProducerCommands : WidgetDispatch(cmd)
    \/ WidgetUnlock

ProducerSpec == ProducerInit /\ [][ProducerNext]_vars

-----------------------------------------------------------------------------
(* Version selection on its own: prepare_boards 136-144 over chosen inputs *)

VersionAlphabet == {"v", "1", "7", "+", "n"}

BoundedStrings == UNION {[1..n -> VersionAlphabet] : n \in 0..MaxLen}

NamedStrings ==
    { <<"b", "o", "a", "r", "d", "s", "v", "7">>,
      <<"n", "o", "n", "s", "e", "n", "s", "e">>,
      <<"v", "0", "0", "7">>,
      <<"v", "-", "7">>,
      <<"1", "0">>,
      <<"v", "2", "1", "4", "7", "4", "8", "3", "6", "4", "7">>,
      <<"v", "4", "2", "9", "4", "9", "6", "7", "2", "9", "6">>,
      <<"v", "9", "9", "9", "9", "9", "9", "9", "9", "9", "9", "9">> }

ListedVersions == {1, 2, 9, 10}

WellFormedSets == {{FormatVersion(n) : n \in N} : N \in SUBSET ListedVersions}

\* sets of other file names, told apart by the byte order of their characters
OtherSets ==
    { {<<"c">>, <<"d">>},
      {<<"v", "_", "1">>, <<"v", "a", "1">>},
      {<<"V", "9">>, <<"v", "1">>, <<"y", "2">>},
      {<<"v", "1", "/">>, <<"v", "1", ":">>, <<"v", "1", " ">>} }

VersionInputs ==
    {{s} : s \in BoundedStrings \cup NamedStrings} \cup WellFormedSets \cup OtherSets

VInit ==
    /\ queue = <<>>
    /\ rxAlive = TRUE
    /\ holders = {}
    /\ ioPc = "recv"
    /\ cur = NoCmd
    /\ boards = <<>>
    /\ lifecycle = "Created"
    /\ is_loading = FALSE
    /\ uiPc = "cli"
    /\ cliReset = FALSE
    /\ snap = NoSnap
    /\ widgetPc = "idle"
    /\ enqueued = <<>>
    /\ handled = <<>>
    /\ loadedCount = 0
    /\ fs = FileSystem(FALSE, "absent", FALSE, NoFiles, TRUE)
    /\ run = 1
    /\ sentTotal = 0
    /\ edits = 0
    /\ lastSaved = NoSave
    /\ pending = NoCmd
    /\ mainTx = TRUE
    /\ arcs = Tasks
    /\ vIn \in VersionInputs
    /\ vOut = NoOut
    /\ mIn = NoEvent
    /\ mOut = NoMouse

VSelect ==
    /\ vOut = NoOut
    /\ vOut' = SelectVersion(vIn)
    /\ UNCHANGED << vIn, pipelineVars, mouseVars >>

VNext == VSelect

VSpec == VInit /\ [][VNext]_vars

-----------------------------------------------------------------------------
(* The mouse conversion on its own: Mouse::from over chosen raw events *)

\* crossterm's MouseEvent { kind, column, row, modifiers }
MouseEvent(kind, button, modifiers, column, row) ==
    [kind |-> kind, button |-> button, modifiers |-> modifiers,
     column |-> column, row |-> row]

Buttons == {"Left", "Right", "Middle"}

KeyModifiers == {"SHIFT", "CONTROL", "ALT"}

Coords == 0..MaxCoord

RawEvents ==
    { MouseEvent(k, b, m, c, r) :
        k \in {"Down", "Up", "Drag"}, b \in Buttons, m \in SUBSET KeyModifiers,
        c \in Coords, r \in Coords }
    \cup
    { MouseEvent(k, "none", m, c, r) :
        k \in {"Moved", "ScrollDown", "ScrollUp"}, m \in SUBSET KeyModifiers,
        c \in Coords, r \in Coords }

\* the pattern modifiers: event::KeyModifiers::CONTROL is a constant
\* pattern: it matches when the flags equal CONTROL
IsControl(modifiers) == modifiers = {"CONTROL"}

\* impl From<event::MouseEvent> for Mouse: the arms of the match in order
MouseFrom(e) ==
    IF e.kind = "Down" /\ e.button = "Left" THEN <<"LeftPress">>
    ELSE IF e.kind = "Down" /\ e.button = "Right" THEN <<"RightPress">>
    ELSE IF e.kind = "Down" /\ e.button = "Middle" THEN <<"MiddlePress">>
    ELSE IF e.kind = "ScrollDown" /\ IsControl(e.modifiers) THEN <<"ScrollLeft">>
    ELSE IF e.kind = "ScrollUp" /\ IsControl(e.modifiers) THEN <<"ScrollRight">>
    ELSE IF e.kind = "ScrollUp" THEN <<"ScrollUp">>
    ELSE IF e.kind = "ScrollDown" THEN <<"ScrollDown">>
    ELSE IF e.kind = "Moved" THEN <<"Move", e.column, e.row>>
    ELSE <<"Unknown">>

MInit ==
    /\ queue = <<>>
    /\ rxAlive = TRUE
    /\ holders = {}
    /\ ioPc = "recv"
    /\ cur = NoCmd
    /\ boards = <<>>
    /\ lifecycle = "Created"
    /\ is_loading = FALSE
    /\ uiPc = "cli"
    /\ cliReset = FALSE
    /\ snap = NoSnap
    /\ widgetPc = "idle"
    /\ enqueued = <<>>
    /\ handled = <<>>
    /\ loadedCount = 0
    /\ fs = FileSystem(FALSE, "absent", FALSE, NoFiles, TRUE)
    /\ run = 1
    /\ sentTotal = 0
    /\ edits = 0
    /\ lastSaved = NoSave
    /\ pending = NoCmd
    /\ mainTx = TRUE
    /\ arcs = Tasks
    /\ vIn = {}
    /\ vOut = NoOut
    /\ mIn \in RawEvents
    /\ mOut = NoMouse

MConvert ==
    /\ mOut = NoMouse
    /\ mOut' = MouseFrom(mIn)
    /\ UNCHANGED << mIn, pipelineVars, versionVars >>

MNext == MConvert

MSpec == MInit /\ [][MNext]_vars

-----------------------------------------------------------------------------
(* Properties *)

SameRun == run' = run

\* C1: whenever the IO worker is inside a filesystem operation (directory
\* creation, config writing, save-file listing and loading, snapshot
\* writing) it does not hold the App lock.
C1_LockNotHeldDuringIo == ioPc \in IoSteps => "io" \notin holders

HandledInitialize == \E i \in 1..Len(handled) : handled[i].cmd = "Initialize"

InsideHandler == ioPc \notin {"recv", "panicked"}

\* C2: a filesystem that refuses the config or save directory is only
\* logged: once the worker has left the Initialize handler it has called
\* loaded() for it, holds no lock and waits for the next command.
C2_DirFailureOnlyLogged ==
    (HandledInitialize /\ ~InsideHandler) =>
        /\ ioPc = "recv"
        /\ loadedCount = Len(handled)
        /\ "io" \notin holders

\* C3: every command the worker has dequeued gets exactly one loaded()
\* call after its handler, and no handler failure stops the loop: whenever
\* the worker is not inside handle_io_event, loaded() has been called once
\* per dequeued command and the worker is receiving.
C3_LoadedOncePerCommand ==
    /\ loadedCount <= Len(handled)
    /\ Len(handled) <= loadedCount + 1
    /\ ~InsideHandler => (ioPc = "recv" /\ loadedCount = Len(handled))

LoadFails(f) == LoadLatest(f) = LoadErr

\* C4: when the load of the selected snapshot fails during Initialize, the
\* step that ends do_initialize leaves exactly one default empty board in
\* the App and the lifecycle at Initialized; the worker leaves that
\* position in no other way.
C4_LoadFailureFallsBack ==
    [][ (ioPc = "init_boards" /\ LoadFails(fs) /\ ioPc' # ioPc /\ SameRun) =>
            /\ ioPc' = "loaded_lock"
            /\ boards' = <<DefaultBoard>>
            /\ lifecycle' = "Initialized" ]_vars

C4_Witness ==
    /\ ioPc = "loaded_lock"
    /\ cur.cmd = "Initialize"
    /\ LoadFails(fs)
    /\ boards = <<DefaultBoard>>
    /\ lifecycle = "Initialized"

HandledInOrder ==
    /\ Len(handled) <= Len(enqueued)
    /\ handled = SubSeq(enqueued, 1, Len(handled))

HandlerStartsAfterLoaded ==
    (handled' # handled /\ SameRun) =>
        /\ ioPc = "recv"
        /\ loadedCount = Len(handled)
        /\ handled' = Append(handled, enqueued[Len(handled) + 1])

\* C5: the worker runs the commands one at a time in the order they were
\* sent: the handled commands are a gap-free prefix of the sent ones, and
\* a handler starts only when loaded() has been called for every command
\* handled before it.
C5_OneAtATimeInOrder == []HandledInOrder /\ [][HandlerStartsAfterLoaded]_vars

C5_Witness ==
    /\ Len(handled) = 2
    /\ loadedCount = 1
    /\ InsideHandler
    /\ queue # <<>>

\* the producers of the commands in a log, in the order of the log
Producers(log) == [i \in 1..Len(log) |-> log[i].from]

\* C6: with several producers sending concurrently (main's Reset, the UI
\* and the widget manager, their sends interleaved with each other and
\* with the receives of the worker), two commands of the same producer are
\* handled in the order that producer sent them.
C6_PerProducerOrder ==
    \A i, j \in 1..Len(handled) :
        (i < j /\ handled[i].from = handled[j].from) => handled[i].seq < handled[j].seq

\* the sends of three producers interleaved: the widget manager sent before
\* and after main's Reset and in between the two sends of the UI, and the
\* worker had handled commands before the last ones were sent
C6_Witness ==
    /\ Producers(handled) = <<"widget", "cli", "ui", "widget", "ui">>
    /\ handled[3].cmd # handled[5].cmd
    /\ handled[1].cmd # handled[4].cmd
    /\ loadedCount = 5

WriterHoldsLock ==
    (boards' # boards /\ SameRun) =>
        IF ioPc' # ioPc THEN "io" \in holders ELSE "ui" \in holders

\* C7: at most one context holds the App lock, every write of the board
\* sequence is made by a context that holds it, and a reader that looks at
\* the board sequence twice inside one critical section sees the same
\* complete sequence both times.
C7_NoTornBoards ==
    /\ [](Cardinality(holders) <= 1)
    /\ [](Len(snap) = 2 => snap[1] = snap[2])
    /\ [][WriterHoldsLock]_vars

C7_Witness ==
    /\ Len(snap) = 2
    /\ "ui" \in holders
    /\ ioPc \in {"init_lock", "get_local_lock", "get_cloud_lock"}
    /\ widgetPc = "idle"
    /\ boards # <<>>

\* C8: an Initialize processed in a run that follows a successful
\* SaveLocalData of an earlier run installs the board sequence that was
\* saved.
C8_RoundTrip ==
    [][ (ioPc = "init_boards" /\ ioPc' = "loaded_lock" /\ SameRun
         /\ lastSaved.run >= 1 /\ lastSaved.run < run) =>
            boards' = lastSaved.boards ]_vars

NumbersIn(versions) == {n \in ListedVersions : FormatVersion(n) \in versions}

\* C9: over well-formed identifiers the selected version is the one with
\* the largest number, and over no save files at all it is version 1.
C9_NumericLatest ==
    (vOut # NoOut /\ vIn \in WellFormedSets) =>
        IF vIn = {} THEN vOut.number = 1
        ELSE /\ vOut.number = MaxOf(NumbersIn(vIn))
             /\ vOut.latest = FormatVersion(MaxOf(NumbersIn(vIn)))

LastV(s) ==
    IF \E i \in 1..Len(s) : s[i] = "v"
    THEN CHOOSE i \in 1..Len(s) : s[i] = "v" /\ \A j \in (i + 1)..Len(s) : s[j] # "v"
    ELSE 0

AfterLastV(s) == SubSeq(s, LastV(s) + 1, Len(s))

Unsigned(t) == IF t # <<>> /\ t[1] = "+" THEN Tail(t) ELSE t

LeadingZeros(d) ==
    CHOOSE k \in 0..Len(d) :
        /\ \A i \in 1..k : d[i] = "0"
        /\ k < Len(d) => d[k + 1] # "0"

Significant(d) == SubSeq(d, LeadingZeros(d) + 1, Len(d))

U32MaxText == <<"4", "2", "9", "4", "9", "6", "7", "2", "9", "5">>

IsU32Text(t) ==
    LET d == Unsigned(t)
    IN  /\ d # <<>>
        /\ \A i \in 1..Len(d) : d[i] \in DigitChars
        /\ \/ Len(Significant(d)) < Len(U32MaxText)
           \/ /\ Len(Significant(d)) = Len(U32MaxText)
              /\ ~StrLess(U32MaxText, Significant(d))

RECURSIVE Pow10(_)
Pow10(k) == IF k = 0 THEN 1 ELSE 10 * Pow10(k - 1)

RECURSIVE DecimalValueFrom(_, _)
DecimalValueFrom(d, i) ==
    IF i > Len(d) THEN 0
    ELSE DigitValue(d[i]) * Pow10(Len(d) - i) + DecimalValueFrom(d, i + 1)

ExpectedNumber(s) ==
    IF IsU32Text(AfterLastV(s))
    THEN DecimalValueFrom(Significant(Unsigned(AfterLastV(s))), 1)
    ELSE 1

BoardsV7 == <<"b", "o", "a", "r", "d", "s", "v", "7">>

Nonsense == <<"n", "o", "n", "s", "e", "n", "s", "e">>

\* C10: for a single identifier the numeric version is the unsigned
\* integer written after its last "v" ("boardsv7" gives 7), and 1 when
\* that text is not an unsigned 32-bit integer ("nonsense" gives 1).
C10_ParseNeverFails ==
    (vOut # NoOut /\ Cardinality(vIn) = 1) =>
        /\ \A s \in vIn : vOut.number = ExpectedNumber(s)
        /\ vIn = {BoardsV7} => vOut.number = 7
        /\ vIn = {Nonsense} => vOut.number = 1

C10_Witness ==
    /\ vIn = {BoardsV7}
    /\ vOut.number = 7
    /\ vOut.latest = BoardsV7

\* a step of the worker made while it handles command c, the receive that
\* dequeues c and the step that marks it loaded included
WorkerStepOf(c) ==
    /\ SameRun
    /\ ioPc' # ioPc
    /\ cur.cmd = c \/ (ioPc = "recv" /\ cur'.cmd = c)

\* C11: processing a Reset command never changes the board sequence: from
\* the dequeue of the command to the end of its mark_loaded no step of the
\* worker changes App.boards, and of the filesystem only the content of the
\* config file may change.
C11_ResetKeepsBoards ==
    [][WorkerStepOf("Reset") =>
          /\ boards' = boards
          /\ fs' = [fs EXCEPT !.configFile = fs'.configFile]]_vars

C11_Witness ==
    /\ ioPc = "recv"
    /\ loadedCount = Len(handled)
    /\ Len(handled) = 2
    /\ handled[2].cmd = "Reset"
    /\ boards # <<>>
    /\ fs.configFile = "default"
    /\ fs.files # NoFiles

\* C13: SaveLocalData never modifies the board sequence and never stops the
\* worker: no step of the worker handling it changes App.boards, the write
\* is attempted once (the step after the write goes on to mark_loaded,
\* whether the write succeeded or failed), and the worker returns to its
\* receive, where the next command is taken.
C13_SaveKeepsBoardsAndWorker ==
    [][WorkerStepOf("SaveLocalData") =>
          /\ boards' = boards
          /\ ioPc' \in {"save_lock", "save_write", "loaded_lock", "loaded_set", "recv"}
          /\ ioPc = "save_write" => ioPc' = "loaded_lock"
          /\ fs' # fs => ioPc = "save_write" /\ CanSave(fs)
          /\ rxAlive' = rxAlive]_vars

C13_Witness ==
    /\ Len(handled) = 2
    /\ handled[1].cmd = "SaveLocalData"
    /\ ~CanSave(fs)
    /\ lastSaved = NoSave
    /\ boards # <<>>
    /\ ioPc = "recv"
    /\ loadedCount = 2

\* C14: after a GetLocalData or GetCloudData command the board sequence is
\* empty, whatever it held before: the handler's step installs the empty
\* sequence, no other step of the worker for these commands changes the
\* boards, and no step of theirs changes the filesystem.
C14_PlaceholdersInstallEmpty ==
    [][WorkerStepOf("GetLocalData") \/ WorkerStepOf("GetCloudData") =>
          /\ fs' = fs
          /\ IF ioPc \in {"get_local_set", "get_cloud_set"}
             THEN boards' = <<>> /\ ioPc' = "loaded_lock"
             ELSE boards' = boards]_vars

C14_Witness ==
    /\ Len(handled) = 2
    /\ handled[1].cmd = "Initialize"
    /\ handled[2].cmd = "GetCloudData"
    /\ fs.files # NoFiles
    /\ lifecycle = "Initialized"
    /\ ioPc = "loaded_lock"
    /\ boards = <<>>

\* C15: Initialize writes the default config file only when none exists: a
\* step of the worker handling Initialize leaves the content of a config
\* file that is present as it is, and a prepare_config_dir that returns
\* with no config file present leaves the default one.
C15_ConfigWrittenOnlyIfAbsent ==
    [][WorkerStepOf("Initialize") =>
          /\ fs.configFile # "absent" => fs'.configFile = fs.configFile
          /\ (fs.configFile = "absent" /\ ioPc = "init_config" /\ ioPc' = "init_save")
                => fs'.configFile = "default"]_vars

C15_Witness ==
    /\ Len(handled) = 2
    /\ handled[1].cmd = "Initialize"
    /\ handled[2].cmd = "Initialize"
    /\ loadedCount = 2
    /\ fs.configFile = "custom"

\* positions of the worker with every handled command's handler returned:
\* between two commands, or ended there
HandlersReturned == AfterHandler \cup {"dropped", "closed"}

\* the number of handled commands whose handler has returned
EffectsDone == IF ioPc \in HandlersReturned THEN Len(handled) ELSE Len(handled) - 1

\* the handler of some Initialize command has installed its boards
InstallPassed ==
    \E i \in 1..Len(handled) :
        /\ handled[i].cmd = "Initialize"
        /\ i <= EffectsDone

\* the worker leaves a handler for mark_loaded only by the step that
\* installs the effect of the command
EffectInstalled ==
    (SameRun /\ ioPc # "loaded_lock" /\ ioPc' = "loaded_lock") =>
        CASE cur.cmd = "Initialize" ->
                 /\ boards' = PrepareBoards(fs)
                 /\ lifecycle' = "Initialized"
          [] cur.cmd \in {"GetLocalData", "GetCloudData"} -> boards' = <<>>
          [] cur.cmd = "Reset" -> fs' = ResetConfigFile(fs)
          [] cur.cmd = "SaveLocalData" -> fs' = SaveKanbanStateLocally(fs, boards)
          [] OTHER -> FALSE

\* a command is marked loaded in a critical section of its own, after the
\* one of its handler
MarkedAfterHandler ==
    (SameRun /\ loadedCount' # loadedCount) =>
        /\ ioPc = "loaded_set"
        /\ "io" \in holders
        /\ loadedCount' = loadedCount + 1

\* C18: completion never precedes the effect: the handler and mark_loaded
\* are two critical sections, a command is marked loaded only after the
\* step that installed its effect, so the commands marked loaded never
\* outnumber the handlers that have returned; and Initialize installs the
\* boards and marks Initialized in one step under the lock, so lifecycle
\* Initialized is never seen before an Initialize has installed its boards.
C18_CompletionAfterEffect ==
    /\ [](loadedCount <= EffectsDone)
    /\ [](lifecycle = "Initialized" => InstallPassed)
    /\ [](ioPc = "loaded_lock" => "io" \notin holders)
    /\ [][EffectInstalled /\ MarkedAfterHandler]_vars

C18_Witness ==
    /\ ioPc = "loaded_lock"
    /\ cur.cmd = "Initialize"
    /\ "ui" \in holders
    /\ Len(snap) = 2
    /\ snap[1] = PrepareBoards(fs)
    /\ snap[1] # <<>>
    /\ lifecycle = "Initialized"
    /\ is_loading
    /\ loadedCount = 0

CarriesControl(e) == "CONTROL" \in e.modifiers

\* C16: every raw scroll-down event whose modifier flags carry the control
\* modifier, alone or together with shift or alt, is converted to
\* ScrollLeft, every such scroll-up event to ScrollRight, and a scroll
\* event without the control modifier to ScrollDown / ScrollUp.
C16_CtrlScrollRemapped ==
    mOut # NoMouse =>
        /\ (mIn.kind = "ScrollDown" /\ CarriesControl(mIn)) => mOut = <<"ScrollLeft">>
        /\ (mIn.kind = "ScrollUp" /\ CarriesControl(mIn)) => mOut = <<"ScrollRight">>
        /\ (mIn.kind = "ScrollDown" /\ ~CarriesControl(mIn)) => mOut = <<"ScrollDown">>
        /\ (mIn.kind = "ScrollUp" /\ ~CarriesControl(mIn)) => mOut = <<"ScrollUp">>

\* the worker task exists: it has neither panicked nor been dropped
WorkerAlive == ioPc \notin {"panicked", "dropped", "dropped_in_handler", "closed"}

\* C19: the channel is never closed while the IO worker is alive: the
\* worker's handler owns an Arc around the App, the App owns a sender, so
\* at least one sender is alive whenever the worker waits in recv, and the
\* worker loop never exits because recv returned None.
C19_NeverClosedWhileWorkerAlive ==
    /\ WorkerAlive => ("io" \in arcs /\ "app" \in LiveSenders)
    /\ (WorkerWaiting /\ rxAlive) => (Cardinality(LiveSenders) >= 1 /\ ~ChannelClosed)
    /\ ioPc # "closed"

C19_Witness ==
    /\ uiPc = "returned"
    /\ ~mainTx
    /\ widgetPc = "dropped"
    /\ arcs = {"io"}
    /\ WorkerWaiting
    /\ rxAlive
    /\ queue = <<>>
    /\ LiveSenders = {"app"}
    /\ loadedCount = 2

\* a producer is suspended in send on a full channel while it holds the
\* lock, and the worker is suspended waiting for that lock
SendBlockedUnderLock ==
    /\ uiPc = "sending"
    /\ "ui" \in holders
    /\ rxAlive
    /\ Len(queue) = ChannelCapacity
    /\ ~CanSend(queue)
    /\ ioPc \in LockWaits

\* C17: no deadlock between the lock and the channel: no reachable state
\* has a producer suspended in send on a full (100-entry) channel while it
\* holds the App lock and the IO worker suspended waiting for that lock.
C17_NoLockChannelDeadlock == ~SendBlockedUnderLock
====
